---- MODULE Spec2Model ----
(***************************************************************************)
(* Model of app.py, the either/or quiz drill: the question generator       *)
(* (generate_question) and the session kept in st.session_state across     *)
(* the reruns of the script.                                               *)
(*                                                                         *)
(* A Python str is a sequence of one-character strings, so that strip,     *)
(* split, join, lower and startswith are computed as Python computes them. *)
(* A DataFrame is the sequence of its rows, each row a record.             *)
(***************************************************************************)
EXTENDS Integers, Sequences, FiniteSets, TLC

VARIABLES df_all, topic_choice, current_q, feedback,
          scored_ids, seen_count, correct_count, ev

vars == <<df_all, topic_choice, current_q, feedback,
          scored_ids, seen_count, correct_count, ev>>

-----------------------------------------------------------------------------
(* Bounds of the model *)

\* rows of the bank under SpecGen
MaxRows == 3
\* rows of the bank under Spec
MaxSessionRows == 2
\* first checks counted by the running tally
MaxSeen == 2

-----------------------------------------------------------------------------
(* Python str operations *)

UpperChars == <<"A","B","C","D","E","F","G","H","I","J","K","L","M",
                "N","O","P","Q","R","S","T","U","V","W","X","Y","Z">>

LowerChars == <<"a","b","c","d","e","f","g","h","i","j","k","l","m",
                "n","o","p","q","r","s","t","u","v","w","x","y","z">>

IsSpace(c) == c \in {" ", "\t", "\n"}

\* The lowercase letter of each uppercase letter
LowerOf ==
    [c \in {UpperChars[i] : i \in DOMAIN UpperChars} |->
        LowerChars[CHOOSE i \in DOMAIN UpperChars : UpperChars[i] = c]]

\* str.lower() on one character
LowerChar(c) == IF c \in DOMAIN LowerOf THEN LowerOf[c] ELSE c

\* str.lower()
Lower(s) == [i \in DOMAIN s |-> LowerChar(s[i])]

RECURSIVE LStrip(_)
LStrip(s) ==
    IF s = <<>> THEN <<>>
    ELSE IF IsSpace(Head(s)) THEN LStrip(Tail(s)) ELSE s

RECURSIVE RStrip(_)
RStrip(s) ==
    IF s = <<>> THEN <<>>
    ELSE IF IsSpace(s[Len(s)]) THEN RStrip(SubSeq(s, 1, Len(s) - 1)) ELSE s

\* str.strip()
Strip(s) == RStrip(LStrip(s))

\* str.split(): the maximal runs of non-whitespace characters, in order.
\* cur is the run being read, acc the runs already closed.
RECURSIVE SplitFrom(_, _, _)
SplitFrom(s, cur, acc) ==
    IF s = <<>>
    THEN IF cur = <<>> THEN acc ELSE Append(acc, cur)
    ELSE IF IsSpace(Head(s))
         THEN SplitFrom(Tail(s), <<>>, IF cur = <<>> THEN acc ELSE Append(acc, cur))
         ELSE SplitFrom(Tail(s), Append(cur, Head(s)), acc)

Split(s) == SplitFrom(s, <<>>, <<>>)

\* " ".join(words)
RECURSIVE JoinSpace(_)
JoinSpace(words) ==
    IF words = <<>> THEN <<>>
    ELSE IF Len(words) = 1 THEN words[1]
    ELSE words[1] \o <<" ">> \o JoinSpace(Tail(words))

\* str.startswith(prefix)
StartsWith(s, prefix) ==
    /\ Len(s) >= Len(prefix)
    /\ SubSeq(s, 1, Len(prefix)) = prefix


-----------------------------------------------------------------------------
(* String literals of the program *)

\* "No distractor available"
NoDistractor == <<"N","o"," ","d","i","s","t","r","a","c","t","o","r"," ",
                  "a","v","a","i","l","a","b","l","e">>

\* "residency rules"
ResidencyPrefix == <<"r","e","s","i","d","e","n","c","y"," ","r","u","l","e","s">>

-----------------------------------------------------------------------------
(* Inputs: topics and answers of the rows of the CSV, already stripped *)

\* "Residency rules: A"
TopicResA == <<"R","e","s","i","d","e","n","c","y"," ","r","u","l","e","s",":"," ","A">>
\* "RESIDENCY RULES: B"
TopicResB == <<"R","E","S","I","D","E","N","C","Y"," ","R","U","L","E","S",":"," ","B">>
\* "Other"
TopicOther == <<"O","t","h","e","r">>
\* ""
TopicEmpty == <<>>

\* "A b"
AnswerAb == <<"A"," ","b">>
\* "a  b": another display string with the same normal form as "A b"
AnswerAbWide == <<"a"," "," ","b">>

\* norm, computed: strip, collapse whitespace, lowercase
norm_steps(s) == Lower(JoinSpace(Split(Strip(s))))

\* The normal forms of the strings the model meets, computed once
NormMemo == [s \in {AnswerAb, AnswerAbWide, NoDistractor} |-> norm_steps(s)]

\* A variant of norm that forgets to lowercase.
norm_no_lower(s) == JoinSpace(Split(Strip(s)))

\* norm: norm_steps, read from the memo where it holds the string
norm(s) == IF s \in DOMAIN NormMemo THEN NormMemo[s] ELSE norm_steps(s)

Topics == {TopicResA, TopicResB, TopicOther, TopicEmpty}
Answers == {AnswerAb, AnswerAbWide, NoDistractor}

SessionTopics == {TopicResA, TopicOther, TopicEmpty}
SessionAnswers == {AnswerAb, NoDistractor}

-----------------------------------------------------------------------------
(* load_questions: the bank *)

\* The id "Q-<i>" of the i-th kept row is modelled by the number i.
\* rows is a sequence of <<topic, answer>> with answer non-empty; every row
\* carries the same question text.
QuestionText == <<"q","?">>

load_questions(rows) ==
    [i \in DOMAIN rows |->
        [id |-> i, topic |-> Strip(rows[i][1]), question |-> QuestionText,
         answer |-> Strip(rows[i][2])]]

\* Sequences over S of length 1..n
SeqsUpTo(S, n) == UNION {[1..k -> S] : k \in 1..n}

Banks == {load_questions(r) : r \in SeqsUpTo(Topics \X Answers, MaxRows)}

SessionBanks ==
    {load_questions(r) : r \in SeqsUpTo(SessionTopics \X SessionAnswers, MaxSessionRows)}

-----------------------------------------------------------------------------
(* Sidebar: topic filter and pool *)

\* A variant of topics that keeps the empty topic.
topics_with_empty(bank) == {bank[i].topic : i \in DOMAIN bank}

\* topics: the distinct non-empty topics of the bank (the multiselect's options)
topics(bank) == {bank[i].topic : i \in DOMAIN bank} \ {<<>>}

\* A variant of the pool that filters on an empty selection too.
df_pool_strict(bank, choice) == SelectSeq(bank, LAMBDA r : r.topic \in choice)

\* A variant of the pool that ignores the selection.
df_pool_unfiltered(bank, choice) == bank

\* df_pool: the rows whose topic is selected, in bank order; the whole bank
\* when nothing is selected
df_pool(bank, choice) ==
    IF choice # {}
    THEN SelectSeq(bank, LAMBDA r : r.topic \in choice)
    ELSE bank

Ids(rows) == {rows[i].id : i \in DOMAIN rows}

-----------------------------------------------------------------------------
(* generate_question *)

\* Series.unique(): the distinct values in order of first appearance
RECURSIVE unique(_)
unique(s) ==
    IF s = <<>> THEN <<>>
    ELSE LET u == unique(SubSeq(s, 1, Len(s) - 1))
             x == s[Len(s)]
         IN IF \E i \in DOMAIN u : u[i] = x THEN u ELSE Append(u, x)

answers_of(rows) == [i \in DOMAIN rows |-> rows[i].answer]

\* The residency test, computed: the lowercased topic starts with the prefix
residency_steps(topic) == StartsWith(Lower(topic), ResidencyPrefix)

\* The residency test of the topics the model meets, computed once
ResidencyMemo == [t \in Topics |-> residency_steps(t)]

\* residency: residency_steps, read from the memo where it holds the topic
residency(topic) ==
    IF topic \in DOMAIN ResidencyMemo
    THEN ResidencyMemo[topic]
    ELSE residency_steps(topic)

\* A variant of the residency branch that forgets to exclude the anchor's topic.
candidate_rows_same_family(row, bank) ==
    IF residency(row.topic)
    THEN SelectSeq(bank, LAMBDA r : residency(r.topic) /\ r.id # row.id)
    ELSE SelectSeq(bank, LAMBDA r : r.topic = row.topic /\ r.id # row.id)

\* A variant of the default branch that takes any other row of the bank.
candidate_rows_any_topic(row, bank) ==
    IF residency(row.topic)
    THEN SelectSeq(bank, LAMBDA r :
            residency(r.topic) /\ r.topic # row.topic /\ r.id # row.id)
    ELSE SelectSeq(bank, LAMBDA r : r.id # row.id)

\* candidate_rows: other topics of the residency family for a residency
\* anchor, the anchor's own topic otherwise; never the anchor itself
candidate_rows(row, bank) ==
    IF residency(row.topic)
    THEN SelectSeq(bank, LAMBDA r :
            residency(r.topic) /\ r.topic # row.topic /\ r.id # row.id)
    ELSE SelectSeq(bank, LAMBDA r : r.topic = row.topic /\ r.id # row.id)

\* A variant of the filter that lowercases but does not collapse whitespace.
RECURSIVE filter_no_collapse(_, _)
filter_no_collapse(cands, correct_norm) ==
    IF cands = <<>> THEN <<>>
    ELSE LET c_str == Strip(Head(cands))
             rest == filter_no_collapse(Tail(cands), correct_norm)
         IN IF c_str = <<>> THEN rest
            ELSE IF Lower(c_str) = correct_norm THEN rest
            ELSE <<c_str>> \o rest

\* The filter loop: drop the empty candidates and those whose normal form is
\* the correct answer's; keep the stripped text of the others, in order.
RECURSIVE filter(_, _)
filter(cands, correct_norm) ==
    IF cands = <<>> THEN <<>>
    ELSE LET c_str == Strip(Head(cands))
             rest == filter(Tail(cands), correct_norm)
         IN IF c_str = <<>> THEN rest
            ELSE IF norm(c_str) = correct_norm THEN rest
            ELSE <<c_str>> \o rest

\* filtered, after the topic policy alone
filtered_by_policy(row, bank) ==
    filter(unique(answers_of(candidate_rows(row, bank))), norm(row.answer))

\* others: the answers of every row of the bank but the anchor
others(row, bank) ==
    unique(answers_of(SelectSeq(bank, LAMBDA r : r.id # row.id)))

\* A variant without the whole-bank fallback.
filtered_no_fallback(row, bank) == filtered_by_policy(row, bank)

\* filtered, after the whole-bank fallback
filtered(row, bank) ==
    LET by_policy == filtered_by_policy(row, bank)
    IN IF by_policy = <<>>
       THEN filter(others(row, bank), norm(row.answer))
       ELSE by_policy

\* The values the final choice can give to distractor
distractors(row, bank) ==
    LET f == filtered(row, bank)
    IN IF f = <<>> THEN {NoDistractor} ELSE {f[i] : i \in DOMAIN f}

\* A shuffle that leaves the list as it is.
shuffle_identity(options) == {options}

\* random.shuffle on a list of two: either order
shuffle(options) == {options, <<options[2], options[1]>>}

\* The dict built for one anchor, one distractor and one order of the options
question_dict(row, options) ==
    [id |-> row.id, topic |-> row.topic, question |-> row.question,
     correct |-> row.answer, options |-> options]

\* The dicts generate_question can return once row is the sampled anchor
questions_for(row, bank) ==
    UNION {{question_dict(row, o) : o \in shuffle(<<row.answer, d>>)} :
            d \in distractors(row, bank)}

\* Every value generate_question can return: any row of the pool
\* (df_pool.sample(1)), any filtered candidate (random.choice), either order.
generate_question(pool, bank) ==
    UNION {questions_for(pool[i], bank) : i \in DOMAIN pool}

-----------------------------------------------------------------------------
(* Session state: st.session_state across the reruns of the script *)

\* ss.current_q = None
NoQuestion == [id |-> 0]
\* ss.feedback = None
NoFeedback == "None"

\* The part of st.session_state the script reads and writes
ss == [current_q |-> current_q, feedback |-> feedback]

\* A variant of new_question that keeps the old feedback.
new_question_keeps_feedback(s, pool, bank) ==
    {[current_q |-> q, feedback |-> s.feedback] : q \in generate_question(pool, bank)}

\* new_question: a freshly generated question, feedback cleared.  The result
\* is the set of session states it can leave, one per value of the generator.
new_question(s, pool, bank) ==
    {[current_q |-> q, feedback |-> NoFeedback] : q \in generate_question(pool, bank)}

\* A variant of the entry check that only draws when there is no question.
entry_refresh_only_first(s, pool, bank) ==
    IF s.current_q = NoQuestion THEN new_question(s, pool, bank) ELSE {s}

\* A variant of the entry check that never draws.
entry_refresh_never(s, pool, bank) == {s}

\* A variant of the entry check that draws on every run.
entry_refresh_always(s, pool, bank) == new_question(s, pool, bank)

\* The entry check: draw when there is no question or when the question is
\* no longer in the pool
entry_refresh(s, pool, bank) ==
    IF s.current_q = NoQuestion \/ s.current_q.id \notin Ids(pool)
    THEN new_question(s, pool, bank)
    ELSE {s}

\* The "Next question" button
next_button(s, button, pool, bank) ==
    IF button THEN new_question(s, pool, bank) ELSE {s}

\* A variant of the check handler that keeps a feedback already given.
check_handler_first_only(s, check, selected) ==
    IF check /\ s.feedback = NoFeedback
    THEN [s EXCEPT !.feedback =
            IF selected = s.current_q.correct THEN "correct" ELSE "incorrect"]
    ELSE s

\* The "Check answer" submit: exact comparison with the correct answer
check_handler(s, check, selected) ==
    IF check
    THEN [s EXCEPT !.feedback =
            IF selected = s.current_q.correct THEN "correct" ELSE "incorrect"]
    ELSE s

\* One run of the script from the sidebar on, for the widget values choice
\* (multiselect), button (Next question), check and selected (the form).
\* An empty pool stops the script before it touches the session.
script(s, bank, choice, button, check, selected) ==
    LET pool == df_pool(bank, choice)
    IN IF pool = <<>>
       THEN {s}
       ELSE {check_handler(s2, check, selected) :
                s2 \in UNION {next_button(s1, button, pool, bank) :
                                s1 \in entry_refresh(s, pool, bank)}}

\* Whether a run of the script calls new_question
draws(s, bank, choice, button) ==
    LET pool == df_pool(bank, choice)
    IN /\ pool # <<>>
       /\ \/ s.current_q = NoQuestion
          \/ s.current_q.id \notin Ids(pool)
          \/ button

-----------------------------------------------------------------------------
(* Running tally: scored_ids, seen_count, correct_count *)

tally == [scored_ids |-> scored_ids, seen_count |-> seen_count,
          correct_count |-> correct_count]

\* draw(): the answered marker of the question is cleared
tally_draw(t) == [t EXCEPT !.scored_ids = {}]

\* A variant of check() that counts every submission.
tally_check_every_time(t, qid, is_correct) ==
    [scored_ids |-> t.scored_ids \cup {qid},
     seen_count |-> t.seen_count + 1,
     correct_count |-> t.correct_count + (IF is_correct THEN 1 ELSE 0)]

\* check(): counted only the first time since the question was drawn
tally_check(t, qid, is_correct) ==
    IF qid \in t.scored_ids
    THEN t
    ELSE [scored_ids |-> t.scored_ids \cup {qid},
          seen_count |-> t.seen_count + 1,
          correct_count |-> t.correct_count + (IF is_correct THEN 1 ELSE 0)]

-----------------------------------------------------------------------------
(* Events: each is one run of the script *)

\* The event just handled: its kind, the feedback and the current id before
\* it, the option submitted (check only), and the option of the latest check
\* of the question held since new_question last ran (<<>> when there is none).
\* drew tells whether the run called new_question.
Event(kind, drew, check, selected) ==
    [kind |-> kind, pre_fb |-> feedback, pre_id |-> current_q.id, sel |-> selected,
     checked |-> IF check THEN <<selected>>
                 ELSE IF drew THEN <<>>
                 ELSE ev.checked]

\* One rerun with the given widget values
Rerun(kind, choice, button, check, selected) ==
    LET drew == draws(ss, df_all, choice, button)
        t1 == IF drew THEN tally_draw(tally) ELSE tally
    IN /\ topic_choice' = choice
       /\ \E s \in script(ss, df_all, choice, button, check, selected) :
             /\ current_q' = s.current_q
             /\ feedback' = s.feedback
             /\ LET t2 == IF check
                          THEN tally_check(t1, s.current_q.id, s.feedback = "correct")
                          ELSE t1
                IN /\ scored_ids' = t2.scored_ids
                   /\ seen_count' = t2.seen_count
                   /\ correct_count' = t2.correct_count
       /\ ev' = Event(kind, drew, check, selected)
       /\ UNCHANGED df_all

\* The first run of a session: every widget at its default
FirstRun ==
    /\ ev.kind = "init"
    /\ Rerun("load", topic_choice, FALSE, FALSE, <<>>)

\* The user changes the topic selection
FilterChange ==
    /\ ev.kind # "init"
    /\ \E choice \in (SUBSET topics(df_all)) \ {topic_choice} :
          Rerun("filter", choice, FALSE, FALSE, <<>>)

\* The user presses "Next question"
NextQuestion ==
    /\ ev.kind # "init"
    /\ Rerun("next", topic_choice, TRUE, FALSE, <<>>)

\* The user submits the form with one of the displayed options selected
CheckAnswer ==
    /\ ev.kind # "init"
    /\ current_q # NoQuestion
    /\ current_q.id \in scored_ids \/ seen_count < MaxSeen
    /\ \E i \in DOMAIN current_q.options :
          Rerun("check", topic_choice, FALSE, TRUE, current_q.options[i])

\* A fresh session: nothing in st.session_state, the multiselect at its
\* default (all topics)
InitSession(banks) ==
    /\ df_all \in banks
    /\ topic_choice = topics(df_all)
    /\ current_q = NoQuestion
    /\ feedback = NoFeedback
    /\ scored_ids = {}
    /\ seen_count = 0
    /\ correct_count = 0
    /\ ev = [kind |-> "init", pre_fb |-> NoFeedback, pre_id |-> 0, sel |-> <<>>,
             checked |-> <<>>]

Init == InitSession(SessionBanks)

Next == FirstRun \/ FilterChange \/ NextQuestion \/ CheckAnswer

Spec == Init /\ [][Next]_vars

-----------------------------------------------------------------------------
(* The generator alone: any bank, any selection, one call *)

InitGen ==
    /\ df_all \in Banks
    /\ topic_choice \in SUBSET topics(df_all)
    /\ current_q = NoQuestion
    /\ feedback = NoFeedback
    /\ scored_ids = {}
    /\ seen_count = 0
    /\ correct_count = 0
    /\ ev = [kind |-> "init", pre_fb |-> NoFeedback, pre_id |-> 0, sel |-> <<>>,
             checked |-> <<>>]

\* One call of generate_question on the pool of the selection
Generate ==
    /\ current_q = NoQuestion
    /\ current_q' \in generate_question(df_pool(df_all, topic_choice), df_all)
    /\ ev' = Event("generate", TRUE, FALSE, <<>>)
    /\ UNCHANGED <<df_all, topic_choice, feedback, scored_ids, seen_count, correct_count>>

NextGen == Generate

SpecGen == InitGen /\ [][NextGen]_vars

-----------------------------------------------------------------------------
(* Vocabulary of the properties *)

HasQuestion == current_q # NoQuestion

\* The bank row the current question was built from
Anchor == df_all[current_q.id]

\* The option that is not the correct answer (the second one when both are)
Distractor ==
    IF current_q.options[1] = current_q.correct
    THEN current_q.options[2]
    ELSE current_q.options[1]

CountOf(x, seq) == Cardinality({i \in DOMAIN seq : seq[i] = x})

BankRows == {df_all[i] : i \in DOMAIN df_all}

\* The rows other than the anchor whose answer is non-empty and differs from
\* the correct answer after normalisation
UsableRows ==
    LET correct_norm == norm(current_q.correct)
    IN {r \in BankRows :
            /\ r.id # current_q.id
            /\ Strip(r.answer) # <<>>
            /\ norm(r.answer) # correct_norm}

\* Usable rows of the residency family with a topic other than the anchor's
UsableFamilyRows ==
    {r \in UsableRows : r.topic # Anchor.topic /\ residency(r.topic)}

ActivePool == df_pool(df_all, topic_choice)

-----------------------------------------------------------------------------
(* Properties of generate_question, under SpecGen *)

\* C1: the options contain the correct answer exactly once and are pairwise
\* distinct display strings, on every path of generate_question.
C1_CorrectOnceAndDistinct ==
    HasQuestion =>
        /\ CountOf(current_q.correct, current_q.options) = 1
        /\ \A i, j \in DOMAIN current_q.options :
              i # j => current_q.options[i] # current_q.options[j]

\* C2: the normal form of the distractor differs from the normal form of the
\* correct answer, whichever path produced the distractor.
C2_DistractorNormDiffers ==
    HasQuestion => norm(Distractor) # norm(current_q.correct)

\* C5: for a residency anchor, whenever some family row of another topic has
\* a usable answer, the distractor is the answer of such a row.
C5_ResidencyDistractorFromOtherFamilyTopic ==
    (HasQuestion /\ residency(Anchor.topic) /\ UsableFamilyRows # {}) =>
        \E r \in UsableFamilyRows : Distractor = r.answer

\* C5 witness: a residency anchor with a usable family row of another topic,
\* while a row of its own topic or outside the family offers another usable
\* answer.
C5_Witness ==
    /\ HasQuestion
    /\ residency(Anchor.topic)
    /\ UsableFamilyRows # {}
    /\ \E r \in UsableRows \ UsableFamilyRows : r.answer # Distractor

C7_SentinelIffNoUsableRow ==
    /\ (~HasQuestion /\ ActivePool # <<>>) =>
          generate_question(ActivePool, df_all) # {}
    /\ HasQuestion =>
          LET usable == UsableRows
          IN IF usable = {}
             THEN Distractor = NoDistractor
             ELSE \E r \in usable : Distractor = r.answer

\* C7 witness: the topic policy gives no usable candidate, the rest of the
\* bank does, and the distractor is a bank answer.
C7_Witness ==
    /\ HasQuestion
    /\ filtered_by_policy(Anchor, df_all) = <<>>
    /\ UsableRows # {}
    /\ \E r \in UsableRows : Distractor = r.answer

-----------------------------------------------------------------------------
(* Properties of the session, under Spec *)

\* C3: after every handled event the current question's id is in the pool
\* of the current selection, also when a filter change removed the previous
\* question from the pool.
C3_CurrentInPool ==
    ev.kind # "init" =>
        /\ HasQuestion
        /\ current_q.id \in Ids(ActivePool)

\* C3 witness: a filter change took the previous question out of the pool
\* and the question now held is in the pool.
C3_Witness ==
    /\ ev.kind = "filter"
    /\ ev.pre_id \notin Ids(ActivePool)
    /\ HasQuestion
    /\ current_q.id \in Ids(ActivePool)
    /\ current_q.id # ev.pre_id

\* C4: the counters never decrease; a check of a question not yet checked
\* since its draw adds one to seen_count and, when right, one to
\* correct_count; a re-check and every other event leave them alone.
C4_IdempotentScoring ==
    [][/\ seen_count' >= seen_count
       /\ correct_count' >= correct_count
       /\ ev'.kind # "check" =>
             seen_count' = seen_count /\ correct_count' = correct_count
       /\ (ev'.kind = "check" /\ feedback # NoFeedback) =>
             seen_count' = seen_count /\ correct_count' = correct_count
       /\ (ev'.kind = "check" /\ feedback = NoFeedback) =>
             /\ seen_count' = seen_count + 1
             /\ correct_count' = correct_count +
                    (IF ev'.sel = current_q.correct THEN 1 ELSE 0)]_vars

\* C4 witness: the correct answer was checked twice in succession on the
\* same question and was counted once.
C4_Witness ==
    /\ ev.kind = "check"
    /\ ev.pre_fb = "correct"
    /\ feedback = "correct"
    /\ seen_count = 1
    /\ correct_count = 1

\* C8: a check sets the feedback to "correct" exactly when the submitted
\* option is the correct answer, string for string, and to "incorrect"
\* otherwise, whatever the feedback was before; an answered question can be
\* checked again.
C8_CheckFeedback ==
    /\ ev.kind = "check" =>
          /\ feedback \in {"correct", "incorrect"}
          /\ feedback = "correct" <=> ev.sel = current_q.correct
    /\ feedback # NoFeedback => ENABLED CheckAnswer

\* C8 witness: a re-check with the other option replaced "correct" by
\* "incorrect".
C8_Witness ==
    /\ ev.kind = "check"
    /\ ev.pre_fb = "correct"
    /\ feedback = "incorrect"
    /\ ev.sel # current_q.correct

\* C9: after next the feedback is unset and the current question is in the
\* pool, whatever the feedback was before.
C9_NextLeavesUnanswered ==
    ev.kind = "next" =>
        /\ feedback = NoFeedback
        /\ HasQuestion
        /\ current_q.id \in Ids(ActivePool)

\* C9 witness: next pressed on an answered question.
C9_Witness ==
    /\ ev.kind = "next"
    /\ ev.pre_fb # NoFeedback
    /\ feedback = NoFeedback

\* C10 as stated: no check and no filter change takes an answered session
\* back to unanswered.
C10_Original ==
    (ev.kind \in {"check", "filter"} /\ ev.pre_fb # NoFeedback) =>
        feedback # NoFeedback

\* C10 amended: an answered session becomes unanswered only by next or by a
\* filter change that removes the current question's id from the pool; a
\* check, and a filter change that keeps the id in the pool, leave it
\* answered.
C10_LeaveAnsweredOnlyByDraw ==
    (ev.pre_fb # NoFeedback /\ feedback = NoFeedback) =>
        \/ ev.kind = "next"
        \/ ev.kind = "filter" /\ ev.pre_id \notin Ids(ActivePool)

\* C10 witness: a filter change that kept the answered question in the pool
\* left the session answered.
C10_Witness ==
    /\ ev.kind = "filter"
    /\ ev.pre_fb # NoFeedback
    /\ ev.pre_id \in Ids(ActivePool)
    /\ feedback = ev.pre_fb

-----------------------------------------------------------------------------
(* Further properties of the pool and of generate_question, under SpecGen *)

\* The ids of the bank rows the selection admits, stated on the bank
AdmittedIds ==
    {i \in DOMAIN df_all : topic_choice = {} \/ df_all[i].topic \in topic_choice}

\* C11: with an empty selection the pool is the whole bank; otherwise it
\* holds exactly the bank rows whose topic is selected, each with the bank's
\* fields, in the bank's order.
C11_PoolResolution ==
    LET pool == ActivePool
    IN /\ topic_choice = {} => pool = df_all
       /\ Ids(pool) = AdmittedIds
       /\ \A i \in DOMAIN pool : pool[i] = df_all[pool[i].id]
       /\ \A i, j \in DOMAIN pool : i < j => pool[i].id < pool[j].id

\* C11 witness: a question drawn from the pool of a non-empty selection
\* that keeps two rows, in bank order, and leaves out the row between them.
C11_Witness ==
    /\ HasQuestion
    /\ topic_choice # {}
    /\ Len(df_all) = 3
    /\ Len(ActivePool) = 2
    /\ ActivePool[1] = df_all[1]
    /\ ActivePool[2] = df_all[3]
    /\ df_all[2].topic # <<>>

\* Usable rows carrying exactly the anchor's topic
UsableSameTopicRows == {r \in UsableRows : r.topic = Anchor.topic}

\* C12: for an anchor outside the residency family, whenever another row of
\* exactly the same topic is usable, the distractor is the answer of such a
\* row and the topic policy alone supplies it.
C12_DefaultPolicySameTopic ==
    (HasQuestion /\ ~residency(Anchor.topic) /\ UsableSameTopicRows # {}) =>
        /\ \E r \in UsableSameTopicRows : Distractor = r.answer
        /\ filtered_by_policy(Anchor, df_all) # <<>>

\* C12 witness: a non-residency anchor with a usable row of its topic, while
\* a row of another topic offers a different usable answer.
C12_Witness ==
    /\ HasQuestion
    /\ ~residency(Anchor.topic)
    /\ UsableSameTopicRows # {}
    /\ \E r \in UsableRows : r.topic # Anchor.topic /\ r.answer # Distractor

\* C16: the options are the correct answer and one distractor of the anchor
\* in some order, and before the call both orders are possible results for
\* every row of the pool.
C16_OptionsArePermutation ==
    /\ HasQuestion =>
          /\ Len(current_q.options) = 2
          /\ \E d \in distractors(Anchor, df_all) :
                \/ current_q.options = <<current_q.correct, d>>
                \/ current_q.options = <<d, current_q.correct>>
    /\ ~HasQuestion =>
          LET GeneratorResults == generate_question(ActivePool, df_all)
          IN \A i \in DOMAIN ActivePool :
             /\ \E q \in GeneratorResults :
                   q.id = ActivePool[i].id /\ q.options[1] = q.correct
             /\ \E q \in GeneratorResults :
                   q.id = ActivePool[i].id /\ q.options[2] = q.correct

\* C16 witness: a generated question whose correct answer is the second
\* option.
C16_Witness ==
    /\ HasQuestion
    /\ current_q.options[2] = current_q.correct
    /\ current_q.options[1] # current_q.correct

-----------------------------------------------------------------------------
(* Further properties of the session, under Spec *)

\* C13: a check, and a filter change that keeps the current id in the pool,
\* leave the current question as it is; a question is replaced only by next
\* or by a filter change that takes its id out of the pool.
C13_QuestionFrame ==
    [][LET kept == current_q.id \in Ids(df_pool(df_all, topic_choice'))
       IN /\ (ev'.kind = "check" \/ (ev'.kind = "filter" /\ kept)) =>
                current_q' = current_q
          /\ (HasQuestion /\ current_q' # current_q) =>
                \/ ev'.kind = "next"
                \/ ev'.kind = "filter" /\ ~kept]_vars

\* C13 witness: a filter change narrowed the pool and the question held
\* before it, still in the pool, is the one held after it.
C13_Witness ==
    /\ ev.kind = "filter"
    /\ topic_choice # {}
    /\ Len(ActivePool) < Len(df_all)
    /\ HasQuestion
    /\ ev.pre_id = current_q.id

\* The feedback a check of option sel gives on the current question
ResultOf(sel) == IF sel = current_q.correct THEN "correct" ELSE "incorrect"

\* C14: the feedback is set exactly when the question held has been checked
\* since it was drawn, and it is then the result of the latest such check.
C14_FeedbackNeverStale ==
    /\ feedback # NoFeedback =>
          /\ HasQuestion
          /\ ev.checked # <<>>
          /\ feedback = ResultOf(ev.checked[1])
    /\ ev.checked = <<>> => feedback = NoFeedback

\* C14 witness: the feedback of a check is still shown after a later event
\* that did not draw.
C14_Witness ==
    /\ ev.kind = "filter"
    /\ feedback = "incorrect"
    /\ ev.checked # <<>>
    /\ ev.checked[1] # current_q.correct

\* C15: whenever the pool is not empty the entry check leaves a question of
\* the pool for the handlers that follow it, and no check or next event was
\* ever handled without a current question before it.
C15_DrawOnEntry ==
    /\ ActivePool # <<>> =>
          \A s \in entry_refresh(ss, ActivePool, df_all) :
              s.current_q # NoQuestion /\ s.current_q.id \in Ids(ActivePool)
    /\ ev.kind \in {"check", "next"} => ev.pre_id # 0
    /\ ev.kind # "init" => HasQuestion

\* C15 witness: next was pressed on a question that had not been checked.
C15_Witness ==
    /\ ev.kind = "next"
    /\ ev.pre_id # 0
    /\ ev.pre_fb = NoFeedback
    /\ HasQuestion

\* C17: the selection is a subset of the bank's non-empty topics and the
\* pool it resolves to is never empty.
C17_PoolNeverEmpty ==
    /\ df_all # <<>>
    /\ topic_choice \subseteq topics(df_all)
    /\ <<>> \notin topic_choice
    /\ ActivePool # <<>>

\* C17 witness: every topic was deselected and a question of the whole bank
\* is held.
C17_Witness ==
    /\ ev.kind = "filter"
    /\ topic_choice = {}
    /\ topics(df_all) # {}
    /\ HasQuestion
    /\ current_q.id \in Ids(ActivePool)

\* C18: under a non-empty selection no row of the pool has the empty topic
\* and the question held is not built from such a row; under the empty
\* selection every row with the empty topic is in the pool.
C18_EmptyTopicRows ==
    /\ topic_choice # {} =>
          /\ \A i \in DOMAIN ActivePool : ActivePool[i].topic # <<>>
          /\ (ev.kind # "init" /\ HasQuestion) => current_q.topic # <<>>
    /\ topic_choice = {} =>
          \A r \in BankRows : r.topic = <<>> => r.id \in Ids(ActivePool)

\* C18 witness: under a non-empty selection the distractor of the question
\* held is the answer of a row with the empty topic and of no other row.
C18_Witness ==
    /\ topic_choice # {}
    /\ HasQuestion
    /\ \E r \in BankRows : r.topic = <<>> /\ r.answer = Distractor
    /\ \A r \in BankRows : r.answer = Distractor => r.topic = <<>>

====
